---- MODULE Spec2Model ----
(***************************************************************************)
(* serverless-esbuild: the bundle() step of the plugin (src/src/bundle.ts).*)
(*                                                                         *)
(* A plugin instance holds buildOptions, functionEntries, buildDirPath,    *)
(* plugins and buildResults.  bundle() is an async method: it runs         *)
(* synchronously up to `await pkg.build(...)`, and resumes when the        *)
(* compiler resolves or rejects.  Paths and extensions are sequences of    *)
(* one-character strings, so that slice/lastIndexOf are computed as the    *)
(* code computes them.                                                     *)
(***************************************************************************)
EXTENDS Integers, Sequences, FiniteSets, TLC

VARIABLES
    buildOptions,     \* this.buildOptions: option name -> value
    functionEntries,  \* this.functionEntries: sequence of FunctionEntry
    buildDirPath,     \* this.buildDirPath
    plugins,          \* this.plugins
    buildResults,     \* this.buildResults: [defined, value]
    pc,               \* where the current bundle() call stands
    config,           \* local `config` of the running call
    uniqueFiles,      \* local `uniqueFiles` of the running call
    thrown,           \* what the last bundle() call rejected with, or NoError
    buildCalls,       \* arguments of the pkg.build calls of the current bundle() call
    buildPromise,     \* the promise the last pkg.build call returned
    inFlight,         \* pkg.build calls started and not yet settled
    prepareCalls,     \* this.prepare() calls of the current bundle() call
    callLog,          \* the calls the current bundle() call made, in order
    written,          \* files written by the current bundle() call (path -> content)
    realResults,      \* buildResults of the last successful call without skipBundle
    skipResults,      \* buildResults of the last successful call with skipBundle
    previousResults,  \* buildResults before the last successful call replaced it
    manifests,        \* the package.json of each working directory
    bunPc,            \* where the current call of a Bun packager method stands
    bunCall,          \* the method called, its working directory and arguments
    spawned,          \* the processes the current call spawned, in order
    allPromise,       \* the Promise.all of the current runScripts call
    bunError,         \* what the current call rejected with
    depResult,        \* what the current getProdDependencies call returned
    previousDeps,     \* what the getProdDependencies call before it returned
    disk,             \* the source paths: what stat and a read of each give
    clock,            \* Date.now()
    filesPathList,    \* the IFiles handed to zip
    statCache,        \* the optional Map of fs.Stats handed to zip
    zipCall,          \* zipPath and useNativeZip of the current zip call
    zipPc,            \* where the current zip call stands
    temp,             \* the staging directory of the current call
    tempDirs,         \* the staging directories that exist
    staged,           \* the files staged by the current call, and how
    fsCalls,          \* the fs.link and fs.copy calls of the current call, in order
    bestzipCalls,     \* the invocations of the native zip tool by the current call
    queued,           \* the entries appended to zipArchive by the current call
    archives,         \* the archive written at each target path
    zipError          \* the error of the current call

\* the plugin instance and its bundle() call
bundleVars == << buildOptions, functionEntries, buildDirPath, plugins, buildResults,
                 pc, config, uniqueFiles, thrown, buildCalls, buildPromise, inFlight,
                 prepareCalls, callLog, written, realResults, skipResults,
                 previousResults >>

\* the Bun packager and the file system and processes it works on
bunVars == << manifests, bunPc, bunCall, spawned, allPromise, bunError, depResult,
             previousDeps >>

\* the zip engine and the file system it works on
zipVars == << disk, clock, filesPathList, statCache, zipCall, zipPc, temp, tempDirs,
              staged, fsCalls, bestzipCalls, queued, archives, zipError >>

vars == << bundleVars, bunVars, zipVars >>

----------------------------------------------------------------------------
(* Bounds of the model *)

\* longest list of function entries
MaxEntries == 3

----------------------------------------------------------------------------
(* JavaScript values *)

Undefined == "undefined"
NULL == "null"

\* `concurrency: Infinity` of the test fixtures: larger than any list length
Infinity == 1000000

\* a string element of an options list
Str(s) == [t |-> "string", v |-> s, keys |-> << >>]
\* an object element of an options list, with its own keys in order
Obj(ks) == [t |-> "object", v |-> "", keys |-> ks]
\* any other element (number, boolean, null, undefined)
Other(x) == [t |-> "other", v |-> x, keys |-> << >>]

\* obj[k], undefined when obj has no such property
Get(obj, k) == IF k \in DOMAIN obj THEN obj[k] ELSE Undefined

\* { ...obj, [k]: v }
Assign(obj, k, v) == [x \in DOMAIN obj \cup {k} |-> IF x = k THEN v ELSE obj[x]]

\* const { [k]: _, ...rest } = obj
Omit(obj, k) == [x \in DOMAIN obj \ {k} |-> obj[x]]

\* JavaScript truthiness of an option value that is a boolean or absent
Truthy(obj, k) == k \in DOMAIN obj /\ obj[k] = TRUE

\* the elements of a sequence
Range(s) == {s[i] : i \in 1..Len(s)}

----------------------------------------------------------------------------
(* Strings as character sequences *)

DotJs == << ".", "j", "s" >>
DotCjs == << ".", "c", "j", "s" >>
DotMjs == << ".", "m", "j", "s" >>

\* String.prototype.lastIndexOf(ch): 0-based index of the last ch, or -1
LastIndexOf(s, ch) ==
    LET hits == {i \in 1..Len(s) : s[i] = ch}
    IN  IF hits = {} THEN -1
        ELSE (CHOOSE i \in hits : \A j \in hits : j <= i) - 1

\* String.prototype.slice(0, end): a negative end counts from the end
Slice0(s, end) ==
    LET e == IF end < 0 THEN (IF Len(s) + end < 0 THEN 0 ELSE Len(s) + end)
             ELSE (IF end > Len(s) THEN Len(s) ELSE end)
    IN  SubSeq(s, 1, e)

----------------------------------------------------------------------------
(* helper.ts (not among the sources): modelled from the specification *)

\* asArray: an array stays, anything else is wrapped; lists are modelled as
\* sequences and a missing option as the one-element list [undefined]
asArray(obj, k) == IF k \in DOMAIN obj THEN obj[k] ELSE << Other(Undefined) >>

\* isESM: format "esm" or platform "neutral"
isESM(opts) == Get(opts, "format") = "esm" \/ Get(opts, "platform") = "neutral"

----------------------------------------------------------------------------
(* bundle.ts: pure parts *)

\* getStringArray: the string elements of the option
getStringArray(obj, k) == SelectSeq(asArray(obj, k), LAMBDA item : item.t = "string")

RECURSIVE ExternalNamesOf(_)
ExternalNamesOf(arr) ==
    IF arr = << >> THEN << >>
    ELSE LET item == Head(arr)
             here == IF item.t = "string" THEN << item >>
                     ELSE IF item.t = "object"
                          THEN [i \in 1..Len(item.keys) |-> Str(item.keys[i])]
                     ELSE << >>
         IN  here \o ExternalNamesOf(Tail(arr))

\* getExternalNames: a string gives itself, an object its keys
getExternalNames(obj, k) == ExternalNamesOf(asArray(obj, k))

\* the list with its last name forgotten
PluginOptionNamesShort ==
    << "concurrency", "zipConcurrency", "exclude", "nativeZip", "packager",
       "packagePath", "watch", "keepOutputDirectory", "packagerOptions",
       "installExtraArgs", "installDeps", "outputFileExtension",
       "outputBuildFolder", "outputWorkFolder", "nodeExternals", "skipBuild",
       "skipRebuild", "skipBuildExcludeFns", "stripEntryResolveExtensions" >>

\* the option names bundle() deletes before calling esbuild
PluginOptionNames ==
    << "concurrency", "zipConcurrency", "exclude", "nativeZip", "packager",
       "packagePath", "watch", "keepOutputDirectory", "packagerOptions",
       "installExtraArgs", "installDeps", "outputFileExtension",
       "outputBuildFolder", "outputWorkFolder", "nodeExternals", "skipBuild",
       "skipRebuild", "skipBuildExcludeFns", "stripEntryResolveExtensions",
       "disposeContext" >>

RECURSIVE Reduce(_, _)
\* names.reduce((options, optionName) => rest, options)
Reduce(names, options) ==
    IF names = << >> THEN options
    ELSE Reduce(Tail(names), Omit(options, Head(names)))

\* esbuildOptions: buildOptions without the plugin's own options
esbuildOptions(opts) == Reduce(PluginOptionNames, opts)

\* the excluded names added even when the exclude list holds '*'
externalOfIgnoresWildcard(opts) ==
    getExternalNames(opts, "external") \o getStringArray(opts, "exclude")

\* the `external` list handed to esbuild: the external names, then the
\* excluded names unless the exclude list holds '*'
externalOf(opts) ==
    LET exclude == getStringArray(opts, "exclude")
    IN  getExternalNames(opts, "external")
            \o (IF Str("*") \in Range(exclude) THEN << >> ELSE exclude)

\* config = { ...esbuildOptions, external, plugins }, and outExtension when
\* the output extension is not '.js'
configOf(opts, plugs) ==
    LET base == Assign(Assign(esbuildOptions(opts), "external", externalOf(opts)),
                       "plugins", plugs)
    IN  IF opts.outputFileExtension # DotJs
        THEN Assign(base, "outExtension", [from |-> DotJs, to |-> opts.outputFileExtension])
        ELSE base

\* no deduplication at all
uniqNoDedup(xs) == xs

RECURSIVE uniqKeepLast(_)
\* the distinct elements, each at its last occurrence
uniqKeepLast(xs) ==
    IF xs = << >> THEN << >>
    ELSE LET rest == uniqKeepLast(Tail(xs))
         IN  IF Head(xs) \in Range(rest) THEN rest ELSE << Head(xs) >> \o rest

RECURSIVE uniq(_)
\* ramda uniq: the distinct elements, each at its first occurrence
uniq(xs) ==
    IF xs = << >> THEN << >>
    ELSE LET rest == uniq(SubSeq(xs, 1, Len(xs) - 1))
             x == xs[Len(xs)]
         IN  IF x \in Range(rest) THEN rest ELSE Append(rest, x)

\* this.functionEntries.map(({ entry }) => entry)
entriesOf(fes) == [i \in 1..Len(fes) |-> fes[i].entry]

\* the argument of pkg.build: { ...config, entryPoints, outdir, outbase }
buildArgs(cfg, files, dir) ==
    Assign(Assign(Assign(cfg, "entryPoints", files), "outdir", dir), "outbase", << "." >>)

\* the slice taken one character too far, keeping the dot
bundlePathKeepsDot(entry, ext) == Slice0(entry, LastIndexOf(entry, ".") + 1) \o ext

\* entry.slice(0, entry.lastIndexOf('.')) + outputFileExtension
bundlePathOf(entry, ext) == Slice0(entry, LastIndexOf(entry, ".")) \o ext

\* a skipBundle call that assumes the default extension
fileBuildResultsSkipJs(files, opts, buildResult) ==
    [i \in 1..Len(files) |->
        [bundlePath |-> Slice0(files[i], LastIndexOf(files[i], "."))
                            \o (IF Truthy(opts, "skipBundle") THEN DotJs
                                ELSE opts.outputFileExtension),
         entry |-> files[i],
         result |-> buildResult]]

\* uniqueFiles.map((entry) => ({ bundlePath, entry, result: buildResult }))
fileBuildResults(files, opts, buildResult) ==
    [i \in 1..Len(files) |->
        [bundlePath |-> bundlePathOf(files[i], opts.outputFileExtension),
         entry |-> files[i],
         result |-> buildResult]]

\* fileBuildResults.reduce((acc, r) => { acc[r.entry] = r; return acc }, {})
buildCache(fbrs) ==
    [e \in {fbrs[i].entry : i \in 1..Len(fbrs)} |->
        fbrs[CHOOSE i \in 1..Len(fbrs) :
                /\ fbrs[i].entry = e
                /\ \A j \in 1..Len(fbrs) : fbrs[j].entry = e => j <= i]]

\* JSON.stringify(v, null, space): the JSON text of v, indented by space
JSONstringify(v, space) == [json |-> v, space |-> space]

\* meta.json written whether or not the metafile option is set
metaFilesAlways(cfg, dir, buildResult) ==
    << [path |-> << dir, "meta.json" >>,
        content |-> JSONstringify(buildResult.metafile, 2)] >>

\* if (config.metafile) fs.writeFileSync(path.join(buildDirPath, 'meta.json'),
\* JSON.stringify(buildResult.metafile, null, 2)): the files written
metaFiles(cfg, dir, buildResult) ==
    IF Truthy(cfg, "metafile")
    THEN << [path |-> << dir, "meta.json" >>,
             content |-> JSONstringify(buildResult.metafile, 2)] >>
    ELSE << >>

\* the null check on the function handle forgotten
functionBuildResultKeepsNull(fe, cache) ==
    IF fe.entry \notin DOMAIN cache
    THEN << >>
    ELSE << [bundlePath |-> cache[fe.entry].bundlePath,
             func |-> fe.func,
             functionAlias |-> fe.functionAlias] >>

\* one function entry mapped back to its bundle, undefined when the entry
\* is not cached or the function handle is null
functionBuildResult(fe, cache) ==
    IF fe.entry \notin DOMAIN cache \/ fe.func = NULL
    THEN << >>
    ELSE << [bundlePath |-> cache[fe.entry].bundlePath,
             func |-> fe.func,
             functionAlias |-> fe.functionAlias] >>

RECURSIVE functionBuildResults(_, _)
\* this.functionEntries.map(...).filter((result) => typeof result === 'object')
functionBuildResults(fes, cache) ==
    IF fes = << >> THEN << >>
    ELSE functionBuildResult(Head(fes), cache) \o functionBuildResults(Tail(fes), cache)

----------------------------------------------------------------------------
(* Inputs: what the excluded configuration layer may hand to bundle() *)

FileA == << "a", ".", "t", "s" >>
FileB == << "b", ".", "t", "s" >>
FileC == << "c", ".", "t", "s" >>
\* a handler file without extension under a directory with a dot
FileD == << "d", ".", "x", "/", "h" >>

\* function entries: two share a file, one has no function handle
FunctionEntryPool ==
    { [entry |-> FileA, func |-> "h1", functionAlias |-> "func1"],
      [entry |-> FileA, func |-> "h2", functionAlias |-> "func2"],
      [entry |-> FileB, func |-> "h3", functionAlias |-> "func3"],
      [entry |-> FileC, func |-> NULL, functionAlias |-> "func4"],
      [entry |-> FileD, func |-> "h5", functionAlias |-> "func5"] }

\* lists of at most MaxEntries function entries; a function alias names one
\* function, so no entry occurs twice
EntryLists ==
    UNION { { fes \in [1..n -> FunctionEntryPool] :
                \A i, j \in 1..n : i # j => fes[i] # fes[j] } : n \in 0..MaxEntries }

FewEntryLists ==
    { fes \in EntryLists : Len(fes) = 2 /\ fes[1].entry = FileA /\ fes[2].entry = FileB }

Concurrencies == {1, 2, Infinity}
OutputFileExtensions == {DotJs, DotCjs, DotMjs}
\* <<format, platform>>
ModuleKinds == { << Undefined, "node" >>, << "esm", "node" >>, << Undefined, "neutral" >> }

\* the options of the test fixture
BaseOptions(concurrency, ext, platform) ==
    [concurrency |-> concurrency,
     bundle |-> TRUE,
     target |-> "node12",
     external |-> << >>,
     exclude |-> << Str("aws-sdk") >>,
     nativeZip |-> FALSE,
     packager |-> "npm",
     installExtraArgs |-> << >>,
     watch |-> "{}",
     keepOutputDirectory |-> FALSE,
     packagerOptions |-> "{}",
     platform |-> platform,
     outputFileExtension |-> ext]

\* obj with k set to v, or without k when v is undefined
With(obj, k, v) == IF v = Undefined THEN Omit(obj, k) ELSE Assign(obj, k, v)

\* the plugin options the fixture leaves out
MorePluginOptions ==
    [zipConcurrency |-> "v", packagePath |-> "v", installDeps |-> "v",
     outputBuildFolder |-> "v", outputWorkFolder |-> "v", nodeExternals |-> "v",
     skipBuild |-> "v", skipRebuild |-> "v", skipBuildExcludeFns |-> "v",
     stripEntryResolveExtensions |-> "v", disposeContext |-> "v"]

\* esbuild options a project may set that bundle() sets itself
OwnOptions == [outdir |-> "dist", outbase |-> << "s", "r", "c" >>]

CoreOptions ==
    { With(BaseOptions(c, e, k[2]), "format", k[1]) :
        c \in Concurrencies, e \in OutputFileExtensions, k \in ModuleKinds }

ExternalLists ==
    { << >>, << Str("pg") >>, << Str("pg"), Obj(<< "sharp", "knex" >>), Other(NULL) >> }
ExcludeLists ==
    { << >>, << Str("aws-sdk") >>, << Str("aws-sdk"), Str("*") >>, << Other(NULL), Str("pg-native") >> }

\* options that vary what is forwarded to esbuild
ForwardOptions ==
    { LET withLists == [BaseOptions(Infinity, e, "node")
                            EXCEPT !.external = x, !.exclude = d]
          withMeta == IF m = "absent" THEN withLists
                      ELSE Assign(withLists, "metafile", m = "yes")
      IN  IF all THEN withMeta @@ MorePluginOptions @@ OwnOptions ELSE withMeta :
        e \in {DotJs, DotCjs}, x \in ExternalLists, d \in ExcludeLists,
        m \in {"absent", "yes", "no"}, all \in BOOLEAN }

----------------------------------------------------------------------------
(* State machine *)

NoError == "none"
ErrCjs == "ERROR: format \"esm\" or platform \"neutral\" should not output a file with extension \".cjs\"."
ErrMjs == "ERROR: Non esm builds should not output a file with extension \".mjs\"."
\* what pkg.build may reject with
BuildFailures == {"BuildFailure", "TransformError"}
\* what pkg.build may resolve with
BuildOutputs == {[metafile |-> "meta1"]}

\* states of the promise pkg.build returns
NoPromise == [state |-> "none", value |-> "none"]
Pending == [state |-> "pending", value |-> "none"]
Fulfilled(r) == [state |-> "fulfilled", value |-> r]
Rejected(err) == [state |-> "rejected", value |-> err]

NoResults == [defined |-> FALSE, value |-> << >>]
Results(v) == [defined |-> TRUE, value |-> v]

\* buildOptions with the skipBundle flag set or absent
SkipChoices(opts) == { Omit(opts, "skipBundle"), Assign(opts, "skipBundle", TRUE) }

bundleInit ==
    /\ \E fes \in EntryLists :
       \E base \in (IF fes \in FewEntryLists THEN CoreOptions \cup ForwardOptions
                    ELSE CoreOptions) :
       \E opts \in SkipChoices(base) :
          /\ functionEntries = fes
          /\ buildOptions = opts
    /\ buildDirPath = "/workdir/.esbuild"
    /\ plugins = << >>
    /\ buildResults = NoResults
    /\ pc = "idle"
    /\ config = << >>
    /\ uniqueFiles = << >>
    /\ thrown = NoError
    /\ buildCalls = << >>
    /\ buildPromise = NoPromise
    /\ inFlight = 0
    /\ prepareCalls = 0
    /\ callLog = << >>
    /\ written = << >>
    /\ realResults = NoResults
    /\ skipResults = NoResults
    /\ previousResults = NoResults

\* the configuration layer rebuilds the options for the next invocation:
\* the same project, bundling skipped or not
configure ==
    /\ pc \in {"idle", "done", "failed"}
    /\ \E opts \in SkipChoices(buildOptions) :
          /\ opts # buildOptions
          /\ buildOptions' = opts
    /\ pc' = "idle"
    /\ UNCHANGED << functionEntries, buildDirPath, plugins, buildResults, config,
                    uniqueFiles, thrown, buildCalls, buildPromise, inFlight,
                    prepareCalls, callLog, written, realResults, skipResults, previousResults >>

\* the function entry lists a later invocation may be handed
RebuildLists == { fes \in EntryLists : Len(fes) <= 1 } \cup FewEntryLists

\* the configuration layer hands the plugin other function entries and
\* another output extension before the next invocation
reconfigure ==
    /\ pc \in {"idle", "done", "failed"}
    /\ \E fes \in RebuildLists, ext \in OutputFileExtensions :
          /\ << fes, ext >> # << functionEntries, buildOptions.outputFileExtension >>
          /\ functionEntries' = fes
          /\ buildOptions' = Assign(buildOptions, "outputFileExtension", ext)
    /\ pc' = "idle"
    /\ UNCHANGED << buildDirPath, plugins, buildResults, config,
                    uniqueFiles, thrown, buildCalls, buildPromise, inFlight,
                    prepareCalls, callLog, written, realResults, skipResults,
                    previousResults >>

\* the check for '.mjs' on a non-ESM build forgotten
extensionErrorCjsOnly(opts) ==
    IF isESM(opts) /\ opts.outputFileExtension = DotCjs THEN ErrCjs ELSE NoError

\* the extension / module format check of bundle(): the error it throws
extensionError(opts) ==
    IF isESM(opts) /\ opts.outputFileExtension = DotCjs THEN ErrCjs
    ELSE IF ~isESM(opts) /\ opts.outputFileExtension = DotMjs THEN ErrMjs
    ELSE NoError

\* prepare() left out when bundling is skipped
callsSkipPrepare(opts) ==
    (IF Truthy(opts, "skipBundle") THEN << >> ELSE << "prepare" >>)
        \o (IF extensionError(opts) # NoError THEN << >> ELSE << "pkg.build" >>)

\* what bundle() calls up to its await: this.prepare() first, and pkg.build
\* unless the extension check threw
callsUpToAwait(opts) ==
    << "prepare" >> \o (IF extensionError(opts) # NoError THEN << >> ELSE << "pkg.build" >>)

\* the plugin's own options deleted from this.buildOptions itself
bundleStripsInPlace ==
    /\ pc \in {"idle", "done", "failed"}
    /\ prepareCalls' = 1
    /\ callLog' = callsUpToAwait(buildOptions)
    /\ written' = << >>
    /\ config' = configOf(buildOptions, plugins)
    /\ buildOptions' = esbuildOptions(buildOptions)
    /\ IF extensionError(buildOptions) # NoError
       THEN /\ thrown' = extensionError(buildOptions)
            /\ pc' = "failed"
            /\ buildCalls' = << >>
            /\ buildPromise' = NoPromise
            /\ uniqueFiles' = << >>
       ELSE /\ uniqueFiles' = uniq(entriesOf(functionEntries))
            /\ buildCalls' = << buildArgs(config', uniqueFiles', buildDirPath) >>
            /\ buildPromise' = Pending
            /\ thrown' = NoError
            /\ pc' = "build"
    /\ inFlight' = inFlight + Len(buildCalls')
    /\ UNCHANGED << functionEntries, buildDirPath, plugins,
                    buildResults, realResults, skipResults, previousResults >>

\* one pkg.build call per unique entry, all started before any is awaited
bundleStartsAllAtOnce ==
    /\ pc \in {"idle", "done", "failed"}
    /\ extensionError(buildOptions) = NoError
    /\ prepareCalls' = 1
    /\ callLog' = callsUpToAwait(buildOptions)
    /\ written' = << >>
    /\ config' = configOf(buildOptions, plugins)
    /\ uniqueFiles' = uniq(entriesOf(functionEntries))
    /\ buildCalls' = [i \in 1..Len(uniqueFiles') |->
                        buildArgs(config', << uniqueFiles'[i] >>, buildDirPath)]
    /\ buildPromise' = Pending
    /\ thrown' = NoError
    /\ pc' = "build"
    /\ inFlight' = inFlight + Len(buildCalls')
    /\ UNCHANGED << buildOptions, functionEntries, buildDirPath, plugins,
                    buildResults, realResults, skipResults, previousResults >>

\* the published results dropped as soon as a call starts
bundleClearsResults ==
    /\ pc \in {"idle", "done", "failed"}
    /\ prepareCalls' = 1
    /\ callLog' = callsUpToAwait(buildOptions)
    /\ written' = << >>
    /\ config' = configOf(buildOptions, plugins)
    /\ IF extensionError(buildOptions) # NoError
       THEN /\ thrown' = extensionError(buildOptions)
            /\ pc' = "failed"
            /\ buildCalls' = << >>
            /\ buildPromise' = NoPromise
            /\ uniqueFiles' = << >>
       ELSE /\ uniqueFiles' = uniq(entriesOf(functionEntries))
            /\ buildCalls' = << buildArgs(config', uniqueFiles', buildDirPath) >>
            /\ buildPromise' = Pending
            /\ thrown' = NoError
            /\ pc' = "build"
    /\ inFlight' = inFlight + Len(buildCalls')
    /\ buildResults' = NoResults
    /\ UNCHANGED << buildOptions, functionEntries, buildDirPath, plugins,
                    realResults, skipResults, previousResults >>

\* bundle(), from its call to the first await: prepare, build the config,
\* check the extension, call pkg.build once with all unique entries
bundle ==
    /\ pc \in {"idle", "done", "failed"}
    /\ prepareCalls' = 1
    /\ callLog' = callsUpToAwait(buildOptions)
    /\ written' = << >>
    /\ config' = configOf(buildOptions, plugins)
    /\ IF extensionError(buildOptions) # NoError
       THEN /\ thrown' = extensionError(buildOptions)
            /\ pc' = "failed"
            /\ buildCalls' = << >>
            /\ buildPromise' = NoPromise
            /\ uniqueFiles' = << >>
       ELSE /\ uniqueFiles' = uniq(entriesOf(functionEntries))
            /\ buildCalls' = << buildArgs(config', uniqueFiles', buildDirPath) >>
            /\ buildPromise' = Pending
            /\ thrown' = NoError
            /\ pc' = "build"
    /\ inFlight' = inFlight + Len(buildCalls')
    /\ UNCHANGED << buildOptions, functionEntries, buildDirPath, plugins,
                    buildResults, realResults, skipResults, previousResults >>

\* esbuild finishes the build it was asked for
esbuildResolves ==
    /\ buildPromise = Pending
    /\ \E buildResult \in BuildOutputs : buildPromise' = Fulfilled(buildResult)
    /\ inFlight' = inFlight - 1
    /\ UNCHANGED << buildOptions, functionEntries, buildDirPath, plugins,
                    buildResults, pc, config, uniqueFiles, thrown, buildCalls,
                    prepareCalls, callLog, written, realResults, skipResults, previousResults >>

\* esbuild fails the build it was asked for
esbuildRejects ==
    /\ buildPromise = Pending
    /\ \E err \in BuildFailures : buildPromise' = Rejected(err)
    /\ inFlight' = inFlight - 1
    /\ UNCHANGED << buildOptions, functionEntries, buildDirPath, plugins,
                    buildResults, pc, config, uniqueFiles, thrown, buildCalls,
                    prepareCalls, callLog, written, realResults, skipResults, previousResults >>

\* the new results appended to the ones already published
bundleResumesAppends ==
    /\ pc = "build"
    /\ buildPromise.state = "fulfilled"
    /\ LET buildResult == buildPromise.value
           fbrs == fileBuildResults(uniqueFiles, buildOptions, buildResult)
           results == functionBuildResults(functionEntries, buildCache(fbrs))
       IN  /\ written' = written \o metaFiles(config, buildDirPath, buildResult)
           /\ buildResults' = Results(buildResults.value \o results)
           /\ previousResults' = buildResults
           /\ IF Truthy(buildOptions, "skipBundle")
              THEN skipResults' = Results(results) /\ UNCHANGED realResults
              ELSE realResults' = Results(results) /\ UNCHANGED skipResults
    /\ pc' = "done"
    /\ UNCHANGED << buildOptions, functionEntries, buildDirPath, plugins, config,
                    uniqueFiles, thrown, buildCalls, buildPromise, inFlight,
                    prepareCalls, callLog >>

\* bundle() resumes with the build result: write meta.json if asked, map the
\* function entries to their bundles and publish the build results
bundleResumes ==
    /\ pc = "build"
    /\ buildPromise.state = "fulfilled"
    /\ LET buildResult == buildPromise.value
           fbrs == fileBuildResults(uniqueFiles, buildOptions, buildResult)
           results == functionBuildResults(functionEntries, buildCache(fbrs))
       IN  /\ written' = written \o metaFiles(config, buildDirPath, buildResult)
           /\ buildResults' = Results(results)
           /\ previousResults' = buildResults
           /\ IF Truthy(buildOptions, "skipBundle")
              THEN skipResults' = Results(results) /\ UNCHANGED realResults
              ELSE realResults' = Results(results) /\ UNCHANGED skipResults
    /\ pc' = "done"
    /\ UNCHANGED << buildOptions, functionEntries, buildDirPath, plugins, config,
                    uniqueFiles, thrown, buildCalls, buildPromise, inFlight,
                    prepareCalls, callLog >>

\* the rejection caught and an empty result published instead
bundleSwallowsRejection ==
    /\ pc = "build"
    /\ buildPromise.state = "rejected"
    /\ buildResults' = Results(<< >>)
    /\ previousResults' = buildResults
    /\ pc' = "done"
    /\ UNCHANGED << buildOptions, functionEntries, buildDirPath, plugins, thrown,
                    config, uniqueFiles, buildCalls, buildPromise, inFlight,
                    prepareCalls, callLog, written, realResults, skipResults >>

\* the awaited pkg.build rejected: bundle() rejects with the same error
bundleRejects ==
    /\ pc = "build"
    /\ buildPromise.state = "rejected"
    /\ thrown' = buildPromise.value
    /\ pc' = "failed"
    /\ UNCHANGED << buildOptions, functionEntries, buildDirPath, plugins,
                    buildResults, config, uniqueFiles, buildCalls, buildPromise,
                    inFlight, prepareCalls, callLog, written, realResults, skipResults, previousResults >>


-----------------------------------------------------------------------------
(* The Bun packager: packagers/bun.ts *)

MaxScripts == 2

Cwds == { "/svc/a", "/svc/b" }
ExtraArgLists == { << >>, << "--frozen-lockfile" >> }
ScriptNames == { "postinstall", "build" }
ScriptNameLists == UNION { [1..n -> ScriptNames] : n \in 0..MaxScripts }

\* a package.json on disk: absent, unreadable, or a text; the text is no
\* JSON, the JSON null, or a JSON object with some of the manifest sections
Missing == [kind |-> "missing", json |-> [t |-> "none", sections |-> << >>]]
Unreadable == [kind |-> "unreadable", json |-> [t |-> "none", sections |-> << >>]]
Text(t, sections) == [kind |-> "text", json |-> [t |-> t, sections |-> sections]]

ProdSection == [lodash |-> "4.17.21", pg |-> "8.11.0"]
DevSection == [jest |-> "29.7.0"]
PeerSection == [pg |-> "7.0.0", react |-> "18.2.0"]

ManifestFiles ==
    { Missing,
      Unreadable,
      Text("invalid", << >>),
      Text("null", << >>),
      Text("object", [devDependencies |-> DevSection]),
      Text("object", [dependencies |-> << >>, devDependencies |-> DevSection]),
      Text("object", [dependencies |-> ProdSection, devDependencies |-> DevSection,
                      peerDependencies |-> PeerSection]) }

\* fs.readFileSync(path, 'utf-8') and JSON.parse: each returns or throws
readFileSync(file) == [threw |-> file.kind # "text", value |-> file.json]
JSONparse(text) == [threw |-> text.t = "invalid", value |-> text]

NoDependencies == [dependencies |-> << >>]

\* the mutant reads every section of the manifest
dependenciesOfAllSections(packageJson) ==
    LET names == UNION { DOMAIN packageJson.sections[sec] :
                            sec \in DOMAIN packageJson.sections }
    IN  [threw |-> packageJson.t = "null",
         value |-> [n \in names |->
                      packageJson.sections[
                          CHOOSE sec \in DOMAIN packageJson.sections :
                              n \in DOMAIN packageJson.sections[sec]][n]]]

\* packageJson.dependencies || {}: reading a property of null throws
dependenciesOf(packageJson) ==
    [threw |-> packageJson.t = "null",
     value |-> IF "dependencies" \in DOMAIN packageJson.sections
               THEN packageJson.sections.dependencies
               ELSE << >>]

\* the body of getProdDependencies: everything inside try, {} from catch
prodDependencies(file) ==
    LET read == readFileSync(file)
        parsed == JSONparse(read.value)
        deps == dependenciesOf(parsed.value)
    IN  IF read.threw \/ parsed.threw \/ deps.threw
        THEN NoDependencies
        ELSE [dependencies |->
                [name \in DOMAIN deps.value |-> [version |-> deps.value[name]]]]

\* a spawned process and the error its promise rejects with
NoSpawnError == [pid |-> 0, kind |-> "none"]
SpawnFailures == { "ENOENT", "exit 1" }
Process(args, cwd) ==
    [command |-> "bun", args |-> args, cwd |-> cwd, state |-> "running",
     error |-> NoSpawnError]
spawnProcess(procs, args, cwd) == Append(procs, Process(args, cwd))

NoCall == [op |-> "none", cwd |-> "", args |-> << >>]
NoAll == [state |-> "none", error |-> NoSpawnError]

\* no call is running and no process of an earlier call is left
bunQuiet ==
    /\ bunPc \in { "idle", "resolved", "rejected" }
    /\ \A i \in 1..Len(spawned) : spawned[i].state # "running"

bunIdle ==
    /\ manifests = [c \in Cwds |-> Missing]
    /\ bunPc = "idle"
    /\ bunCall = NoCall
    /\ spawned = << >>
    /\ allPromise = NoAll
    /\ bunError = NoSpawnError
    /\ depResult = NoDependencies
    /\ previousDeps = NoDependencies

bunInit ==
    /\ manifests \in [Cwds -> ManifestFiles]
    /\ bunPc = "idle"
    /\ bunCall = NoCall
    /\ spawned = << >>
    /\ allPromise = NoAll
    /\ bunError = NoSpawnError
    /\ depResult = NoDependencies
    /\ previousDeps = NoDependencies

\* a result object kept between the calls and filled again by each
getProdDependenciesKeepsResult ==
    /\ bunQuiet
    /\ \E cwd \in Cwds :
          /\ bunCall' = [op |-> "getProdDependencies", cwd |-> cwd, args |-> << >>]
          /\ depResult' =
                [dependencies |->
                    prodDependencies(manifests[cwd]).dependencies @@ depResult.dependencies]
    /\ previousDeps' = depResult
    /\ bunPc' = "resolved"
    /\ spawned' = << >>
    /\ allPromise' = NoAll
    /\ bunError' = NoSpawnError
    /\ UNCHANGED manifests

getProdDependencies ==
    /\ bunQuiet
    /\ \E cwd \in Cwds :
          /\ bunCall' = [op |-> "getProdDependencies", cwd |-> cwd, args |-> << >>]
          /\ depResult' = prodDependencies(manifests[cwd])
    /\ previousDeps' = depResult
    /\ bunPc' = "resolved"
    /\ spawned' = << >>
    /\ allPromise' = NoAll
    /\ bunError' = NoSpawnError
    /\ UNCHANGED manifests

\* between two calls a package.json is written, removed or made unreadable
writeManifest ==
    /\ bunQuiet
    /\ \E cwd \in Cwds, file \in ManifestFiles :
          /\ file # manifests[cwd]
          /\ manifests' = [manifests EXCEPT ![cwd] = file]
    /\ UNCHANGED << bunPc, bunCall, spawned, allPromise, bunError, depResult,
                    previousDeps >>

\* the mutant has no second attempt
installProductionOnly ==
    /\ bunPc = "install"
    /\ spawned[1].state = "failed"
    /\ bunPc' = "rejected"
    /\ bunError' = spawned[1].error
    /\ UNCHANGED << manifests, bunCall, spawned, allPromise, depResult, previousDeps >>

\* install up to its first await: the production attempt is spawned
install ==
    /\ bunQuiet
    /\ \E cwd \in Cwds, extraArgs \in ExtraArgLists :
          /\ bunCall' = [op |-> "install", cwd |-> cwd, args |-> extraArgs]
          /\ spawned' = spawnProcess(<< >>, << "install", "--production" >> \o extraArgs, cwd)
    /\ bunPc' = "install"
    /\ allPromise' = NoAll
    /\ bunError' = NoSpawnError
    /\ depResult' = NoDependencies
    /\ UNCHANGED previousDeps
    /\ UNCHANGED manifests

\* a running process ends: its promise is fulfilled
processExits ==
    \E i \in 1..Len(spawned) :
       /\ spawned[i].state = "running"
       /\ spawned' = [spawned EXCEPT ![i].state = "exited"]
       /\ allPromise' =
            IF /\ allPromise.state = "pending"
               /\ \A j \in 1..Len(spawned) : spawned'[j].state = "exited"
            THEN [allPromise EXCEPT !.state = "fulfilled"]
            ELSE allPromise
       /\ UNCHANGED << manifests, bunPc, bunCall, bunError, depResult, previousDeps >>

\* a running process fails or cannot be started: its promise is rejected, and
\* with it a pending Promise.all it belongs to
processFails ==
    \E i \in 1..Len(spawned), kind \in SpawnFailures :
       /\ spawned[i].state = "running"
       /\ spawned' = [spawned EXCEPT ![i].state = "failed",
                                     ![i].error = [pid |-> i, kind |-> kind]]
       /\ allPromise' =
            IF allPromise.state = "pending"
            THEN [state |-> "rejected", error |-> [pid |-> i, kind |-> kind]]
            ELSE allPromise
       /\ UNCHANGED << manifests, bunPc, bunCall, bunError, depResult, previousDeps >>

\* the mutant keeps the error of the production attempt
installRejectsWithFirst ==
    /\ bunPc = "installFallback"
    /\ spawned[2].state = "failed"
    /\ bunPc' = "rejected"
    /\ bunError' = spawned[1].error
    /\ UNCHANGED << manifests, bunCall, spawned, allPromise, depResult, previousDeps >>

\* the production attempt succeeded: the try block ends and install returns
installResolves ==
    /\ bunPc = "install"
    /\ spawned[1].state = "exited"
    /\ bunPc' = "resolved"
    /\ UNCHANGED << manifests, bunCall, spawned, allPromise, bunError, depResult, previousDeps >>

\* the production attempt failed: catch spawns the plain install
installFallback ==
    /\ bunPc = "install"
    /\ spawned[1].state = "failed"
    /\ spawned' = spawnProcess(spawned, << "install" >> \o bunCall.args, bunCall.cwd)
    /\ bunPc' = "installFallback"
    /\ UNCHANGED << manifests, bunCall, allPromise, bunError, depResult, previousDeps >>

installFallbackResolves ==
    /\ bunPc = "installFallback"
    /\ spawned[2].state = "exited"
    /\ bunPc' = "resolved"
    /\ UNCHANGED << manifests, bunCall, spawned, allPromise, bunError, depResult, previousDeps >>

\* nothing catches the second attempt's rejection
installRejects ==
    /\ bunPc = "installFallback"
    /\ spawned[2].state = "failed"
    /\ bunPc' = "rejected"
    /\ bunError' = spawned[2].error
    /\ UNCHANGED << manifests, bunCall, spawned, allPromise, depResult, previousDeps >>

RECURSIVE spawnEach(_, _, _)
spawnEach(procs, scriptNames, cwd) ==
    IF scriptNames = << >> THEN procs
    ELSE spawnEach(spawnProcess(procs, << "run", Head(scriptNames) >>, cwd),
                   Tail(scriptNames), cwd)

\* runScripts up to its await: scriptNames.map spawns every script, and
\* Promise.all of no promise is fulfilled at once
runScripts ==
    /\ bunQuiet
    /\ \E cwd \in Cwds, scriptNames \in ScriptNameLists :
          /\ bunCall' = [op |-> "runScripts", cwd |-> cwd, args |-> scriptNames]
          /\ spawned' = spawnEach(<< >>, scriptNames, cwd)
          /\ allPromise' = [state |-> IF scriptNames = << >> THEN "fulfilled"
                                      ELSE "pending",
                            error |-> NoSpawnError]
    /\ bunPc' = "runScripts"
    /\ bunError' = NoSpawnError
    /\ depResult' = NoDependencies
    /\ UNCHANGED previousDeps
    /\ UNCHANGED manifests

\* the mutant resolves as soon as one script has ended
runScriptsResolvesEarly ==
    /\ bunPc = "runScripts"
    /\ \/ allPromise.state = "fulfilled"
       \/ /\ allPromise.state = "pending"
          /\ \E i \in 1..Len(spawned) : spawned[i].state = "exited"
    /\ bunPc' = "resolved"
    /\ UNCHANGED << manifests, bunCall, spawned, allPromise, bunError, depResult, previousDeps >>

runScriptsResolves ==
    /\ bunPc = "runScripts"
    /\ allPromise.state = "fulfilled"
    /\ bunPc' = "resolved"
    /\ UNCHANGED << manifests, bunCall, spawned, allPromise, bunError, depResult, previousDeps >>

\* the scripts still running terminated when the call fails
runScriptsRejectsKillsOthers ==
    /\ bunPc = "runScripts"
    /\ allPromise.state = "rejected"
    /\ bunPc' = "rejected"
    /\ bunError' = allPromise.error
    /\ spawned' = [i \in 1..Len(spawned) |->
                     IF spawned[i].state = "running"
                     THEN [spawned[i] EXCEPT !.state = "failed",
                                             !.error = allPromise.error]
                     ELSE spawned[i]]
    /\ UNCHANGED << manifests, bunCall, allPromise, depResult, previousDeps >>

\* the awaited Promise.all rejected: runScripts rejects with the same error;
\* the other processes are left as they are
runScriptsRejects ==
    /\ bunPc = "runScripts"
    /\ allPromise.state = "rejected"
    /\ bunPc' = "rejected"
    /\ bunError' = allPromise.error
    /\ UNCHANGED << manifests, bunCall, spawned, allPromise, depResult, previousDeps >>

-----------------------------------------------------------------------------
(* The zip engine: zip and nodeZip of utils.ts *)

MaxFiles == 3
MaxClock == 2

HandlerJs == "/svc/handler.js"
RunSh == "/svc/bin/run.sh"
BinDir == "/svc/bin"
GoneJs == "/svc/gone.js"
SourcePaths == { HandlerJs, RunSh, BinDir, GoneJs }

IFile(rootPath, localPath) == [rootPath |-> rootPath, localPath |-> localPath]
FilePool ==
    { IFile(HandlerJs, "handler.js"), IFile(RunSh, "bin/run.sh"),
      IFile(BinDir, "bin"), IFile(GoneJs, "gone.js") }
FileLists ==
    UNION { { l \in [1..n -> FilePool] : \A i, j \in 1..n : l[i] = l[j] => i = j } :
               n \in 0..MaxFiles }

ZipPaths == { "/out/a.zip", "/out/b.zip" }

\* what a source path holds: a regular file, a directory, or nothing
Regular(mode, data) == [kind |-> "file", mode |-> mode, mtime |-> 0, data |-> data]
Directory(mode) == [kind |-> "dir", mode |-> mode, mtime |-> 0, data |-> ""]
Absent == [kind |-> "missing", mode |-> 0, mtime |-> 0, data |-> ""]

NewDisk ==
    [p \in SourcePaths |->
        CASE p = HandlerJs -> Regular(33188, "v1")
          [] p = RunSh -> Regular(33261, "sh")
          [] p = BinDir -> Directory(16877)
          [] OTHER -> Absent]

\* fs.Stats of a path that exists
Stats(node) == [isDirectory |-> node.kind = "dir", mode |-> node.mode, mtime |-> node.mtime]
\* fs.statSync(path): returns the Stats or throws
statSync(d, path) == [threw |-> d[path].kind = "missing", stats |-> Stats(d[path])]

\* statCache: none given, or a Map holding the Stats of some existing paths
NoCache == [given |-> FALSE, map |-> << >>]
CacheOf(d, paths) == [given |-> TRUE, map |-> [p \in paths |-> Stats(d[p])]]
StatCaches(d, files) ==
    LET existing == { files[i].rootPath : i \in 1..Len(files) } \ { GoneJs }
    IN  { NoCache, CacheOf(d, existing), CacheOf(d, existing \ { HandlerJs }) }

\* statCache?.get(file.rootPath) ?? fs.statSync(file.rootPath)
statOf(cache, d, path) ==
    IF cache.given /\ path \in DOMAIN cache.map
    THEN [threw |-> FALSE, stats |-> cache.map[path]]
    ELSE statSync(d, path)

Epoch == 0

\* the mutant lets the entry keep the time of the source
entryWithMtime(file, stats) ==
    [name |-> file.localPath, mode |-> stats.mode, date |-> stats.mtime,
     source |-> file.rootPath]

\* zipArchive.file(file.rootPath, {name, mode, date: new Date(0)})
entryOf(file, stats) ==
    [name |-> file.localPath, mode |-> stats.mode, date |-> Epoch,
     source |-> file.rootPath]

\* the mutant appends an entry for a directory as well
appendEvery(cache, d, files) ==
    [threw |-> \E i \in 1..Len(files) : statOf(cache, d, files[i].rootPath).threw,
     entries |-> [i \in 1..Len(files) |->
                    entryOf(files[i], statOf(cache, d, files[i].rootPath).stats)]]

\* filesPathList.forEach of nodeZip: the entries appended, unless a stat throws
RECURSIVE appendFiles(_, _, _)
appendFiles(cache, d, files) ==
    IF files = << >> THEN [threw |-> FALSE, entries |-> << >>]
    ELSE LET st == statOf(cache, d, Head(files).rootPath)
             rest == appendFiles(cache, d, Tail(files))
         IN  IF st.threw THEN [threw |-> TRUE, entries |-> << >>]
             ELSE IF st.stats.isDirectory THEN rest
             ELSE [threw |-> rest.threw,
                   entries |-> IF rest.threw THEN << >>
                               ELSE << entryOf(Head(files), st.stats) >> \o rest.entries]

\* what the archive holds of an appended entry: archiver reads the source
stored(d, e) == [name |-> e.name, mode |-> e.mode, date |-> e.date, data |-> d[e.source].data]

\* what a run was given: per file its name in the archive, its kind, its
\* permissions and its content
inputOf(d, file) ==
    [localPath |-> file.localPath, isDirectory |-> d[file.rootPath].kind = "dir",
     mode |-> d[file.rootPath].mode, data |-> d[file.rootPath].data]

NoArchive == [by |-> "none", entries |-> << >>, inputs |-> << >>, at |-> 0]
NoZipCall == [zipPath |-> "", useNativeZip |-> FALSE]
NoTemp == << "", 0 >>

\* path.basename(zipPath, path.extname(zipPath)) and Date.now()
tempDirName(zipPath, now) == << IF zipPath = "/out/a.zip" THEN "a" ELSE "b", now >>

zipQuiet == zipPc \in { "idle", "resolved", "rejected" }

zipIdle ==
    /\ disk = NewDisk
    /\ clock = 1
    /\ filesPathList = << >>
    /\ statCache = NoCache
    /\ zipCall = NoZipCall
    /\ zipPc = "idle"
    /\ temp = NoTemp
    /\ tempDirs = { }
    /\ staged = << >>
    /\ fsCalls = << >>
    /\ bestzipCalls = << >>
    /\ queued = << >>
    /\ archives = [p \in ZipPaths |-> NoArchive]
    /\ zipError = "none"

zipInit ==
    /\ disk = NewDisk
    /\ clock = 1
    /\ filesPathList \in FileLists
    /\ statCache \in StatCaches(NewDisk, filesPathList)
    /\ zipCall = NoZipCall
    /\ zipPc = "idle"
    /\ temp = NoTemp
    /\ tempDirs = { }
    /\ staged = << >>
    /\ fsCalls = << >>
    /\ bestzipCalls = << >>
    /\ queued = << >>
    /\ archives = [p \in ZipPaths |-> NoArchive]
    /\ zipError = "none"

\* between two calls time passes
tick ==
    /\ zipQuiet
    /\ clock < MaxClock
    /\ clock' = clock + 1
    /\ UNCHANGED << fsCalls, disk, filesPathList, statCache, zipCall, zipPc, temp, tempDirs,
                    staged, bestzipCalls, queued, archives, zipError >>

\* between two calls time passes and the handler is written again, with the
\* same content
touch ==
    /\ zipQuiet
    /\ clock < MaxClock
    /\ clock' = clock + 1
    /\ disk' = [disk EXCEPT ![HandlerJs].mtime = clock']
    /\ UNCHANGED << fsCalls, filesPathList, statCache, zipCall, zipPc, temp, tempDirs,
                    staged, bestzipCalls, queued, archives, zipError >>

\* between two calls time passes and the handler is written again, with
\* another content
edit ==
    /\ zipQuiet
    /\ clock < MaxClock
    /\ disk[HandlerJs].data = "v1"
    /\ clock' = clock + 1
    /\ disk' = [disk EXCEPT ![HandlerJs].data = "v2", ![HandlerJs].mtime = clock']
    /\ UNCHANGED << fsCalls, filesPathList, statCache, zipCall, zipPc, temp, tempDirs,
                    staged, bestzipCalls, queued, archives, zipError >>

\* zip up to its first await: the native branch names its staging directory
\* and starts archiveEffect, the other branch starts makePath
zipWith(useNativeZip) ==
    /\ zipQuiet
    /\ \E zipPath \in ZipPaths :
          /\ zipCall' = [zipPath |-> zipPath, useNativeZip |-> useNativeZip]
          /\ temp' = IF useNativeZip THEN tempDirName(zipPath, clock) ELSE NoTemp
          /\ zipPc' = IF useNativeZip THEN "makeTemp" ELSE "makePath"
    /\ staged' = << >>
    /\ fsCalls' = << >>
    /\ bestzipCalls' = << >>
    /\ queued' = << >>
    /\ zipError' = "none"
    /\ UNCHANGED << disk, clock, filesPathList, statCache, tempDirs, archives >>

zip == \E useNativeZip \in BOOLEAN : zipWith(useNativeZip)

\* a call that leaves useNativeZip out
zipDirect == zipWith(FALSE)

\* the staging directory is made and belongs to the scope; with no file to
\* stage the target directory comes next
makeTempPathScoped ==
    /\ zipPc = "makeTemp"
    /\ tempDirs' = tempDirs \cup { temp }
    /\ zipPc' = IF filesPathList = << >> THEN "makePath" ELSE "staging"
    /\ UNCHANGED << fsCalls, disk, clock, filesPathList, statCache, zipCall, temp, staged,
                    bestzipCalls, queued, archives, zipError >>

\* the staging directory cannot be made: the scope has nothing to release
makeTempPathFails ==
    /\ zipPc = "makeTemp"
    /\ zipError' = "makeTempPathScoped"
    /\ zipPc' = "closing"
    /\ UNCHANGED << fsCalls, disk, clock, filesPathList, statCache, zipCall, temp, tempDirs,
                    staged, bestzipCalls, queued, archives >>

\* the file Effect.all has come to, and where it is staged
nextFile == filesPathList[Len(staged) + 1]
nextDest == << temp, nextFile.localPath >>

\* a call of fs.link or fs.copy and what it threw, "none" when it returned
FsCall(op, threw) == [op |-> op, from |-> nextFile.rootPath, dest |-> nextDest, threw |-> threw]

\* what fs.link may throw: a regular file may be on another device or may
\* not be linked; a directory is never linked; a missing source is missing
LinkFailures(node) ==
    IF node.kind = "file" THEN { "EXDEV", "EPERM" }
    ELSE IF node.kind = "dir" THEN { "EPERM" }
    ELSE { "ENOENT" }

\* the state after the file is staged, by the calls made for it
afterStaging(how, calls) ==
    /\ staged' = Append(staged, [dest |-> nextDest, from |-> nextFile.rootPath, how |-> how])
    /\ fsCalls' = fsCalls \o calls
    /\ zipPc' = IF Len(staged') = Len(filesPathList) THEN "makePath" ELSE "staging"
    /\ UNCHANGED << disk, clock, filesPathList, statCache, zipCall, temp, tempDirs,
                    bestzipCalls, queued, archives, zipError >>

\* linkOrCopyFile: makePath(path.dirname(dest)) fails, nothing is linked or
\* copied, Effect.all stops and the scope closes
makeDestPathFails ==
    /\ zipPc = "staging"
    /\ zipError' = "makePath"
    /\ zipPc' = "closing"
    /\ UNCHANGED << disk, clock, filesPathList, statCache, zipCall, temp, tempDirs,
                    staged, fsCalls, bestzipCalls, queued, archives >>

\* linkOrCopyFile: fs.link succeeds, which it can for a regular file only
linkFile ==
    /\ zipPc = "staging"
    /\ disk[nextFile.rootPath].kind = "file"
    /\ afterStaging("link", << FsCall("link", "none") >>)

\* the mutant copies without trying to link
copyFileOnly ==
    /\ zipPc = "staging"
    /\ disk[nextFile.rootPath].kind # "missing"
    /\ afterStaging("copy", << FsCall("copy", "none") >>)

\* linkOrCopyFile: fs.link throws and fs.copy takes over, whatever was thrown
copyFile ==
    /\ zipPc = "staging"
    /\ disk[nextFile.rootPath].kind # "missing"
    /\ \E err \in LinkFailures(disk[nextFile.rootPath]) :
          afterStaging("copy", << FsCall("link", err), FsCall("copy", "none") >>)

\* the mutant calls the native zip tool although staging failed
linkOrCopyFailsIgnored ==
    /\ zipPc = "staging"
    /\ zipError' = "linkOrCopyFile"
    /\ zipPc' = "bestzip"
    /\ \E err \in LinkFailures(disk[nextFile.rootPath]) :
          fsCalls' = fsCalls \o << FsCall("link", err), FsCall("copy", "EIO") >>
    /\ bestzipCalls' = Append(bestzipCalls,
                          [source |-> "*", destination |-> zipCall.zipPath, cwd |-> temp])
    /\ UNCHANGED << disk, clock, filesPathList, statCache, zipCall, temp, tempDirs,
                    staged, queued, archives >>

\* linkOrCopyFile fails: fs.link throws and fs.copy throws too; Effect.all
\* stops at the first failure and the scope closes
linkOrCopyFails ==
    /\ zipPc = "staging"
    /\ zipError' = "linkOrCopyFile"
    /\ zipPc' = "closing"
    /\ \E err \in LinkFailures(disk[nextFile.rootPath]) :
          fsCalls' = fsCalls \o << FsCall("link", err), FsCall("copy", "EIO") >>
    /\ UNCHANGED << disk, clock, filesPathList, statCache, zipCall, temp, tempDirs,
                    staged, bestzipCalls, queued, archives >>

\* makePath(path.dirname(zipPath)) succeeds: the native branch goes on to
\* bestZipEffect, which calls the tool; the other branch calls nodeZip, which
\* creates the archiver and the write stream and sets its listeners
makePath ==
    /\ zipPc = "makePath"
    /\ IF zipCall.useNativeZip
       THEN /\ bestzipCalls' = Append(bestzipCalls,
                                  [source |-> "*", destination |-> zipCall.zipPath,
                                   cwd |-> temp])
            /\ zipPc' = "bestzip"
       ELSE /\ bestzipCalls' = bestzipCalls
            /\ zipPc' = "opening"
    /\ UNCHANGED << fsCalls, disk, clock, filesPathList, statCache, zipCall, temp, tempDirs,
                    staged, queued, archives, zipError >>

\* makePath(path.dirname(zipPath)) fails: the scope closes, or zip throws
makePathFails ==
    /\ zipPc = "makePath"
    /\ zipError' = "makePath"
    /\ zipPc' = IF zipCall.useNativeZip THEN "closing" ELSE "rejected"
    /\ UNCHANGED << fsCalls, disk, clock, filesPathList, statCache, zipCall, temp, tempDirs,
                    staged, bestzipCalls, queued, archives >>

\* the native zip tool ends: it wrote the archive from the staged tree
bestzipEnds ==
    /\ zipPc = "bestzip"
    /\ archives' = [archives EXCEPT ![zipCall.zipPath] =
                      [by |-> "bestzip",
                       entries |-> << >>,
                       inputs |-> [i \in 1..Len(filesPathList) |->
                                      inputOf(disk, filesPathList[i])],
                       at |-> clock]]
    /\ zipPc' = "closing"
    /\ UNCHANGED << fsCalls, disk, clock, filesPathList, statCache, zipCall, temp, tempDirs,
                    staged, bestzipCalls, queued, zipError >>

bestzipFails ==
    /\ zipPc = "bestzip"
    /\ zipError' = "bestzip"
    /\ zipPc' = "closing"
    /\ UNCHANGED << fsCalls, disk, clock, filesPathList, statCache, zipCall, temp, tempDirs,
                    staged, bestzipCalls, queued, archives >>

\* the mutant releases the staging directory after a success only
scopedLeaksOnFailure ==
    /\ zipPc = "closing"
    /\ tempDirs' = IF zipError = "none" THEN tempDirs \ { temp } ELSE tempDirs
    /\ zipPc' = IF zipError = "none" THEN "resolved" ELSE "rejected"
    /\ UNCHANGED << fsCalls, disk, clock, filesPathList, statCache, zipCall, temp, staged,
                    bestzipCalls, queued, archives, zipError >>

\* Effect.scoped: the scope closes, its finalizer removes the staging
\* directory, and only then is the promise of runPromise settled
scoped ==
    /\ zipPc = "closing"
    /\ tempDirs' = tempDirs \ { temp }
    /\ zipPc' = IF zipError = "none" THEN "resolved" ELSE "rejected"
    /\ UNCHANGED << fsCalls, disk, clock, filesPathList, statCache, zipCall, temp, staged,
                    bestzipCalls, queued, archives, zipError >>

\* output emits 'open': the listener pipes, appends the files and finalizes,
\* and its catch rejects with what a stat threw
outputOpens ==
    /\ zipPc = "opening"
    /\ LET appended == appendFiles(statCache, disk, filesPathList)
       IN  IF appended.threw
           THEN /\ zipError' = "statSync"
                /\ zipPc' = "rejected"
                /\ queued' = queued
           ELSE /\ zipError' = zipError
                /\ zipPc' = "archiving"
                /\ queued' = appended.entries
    /\ UNCHANGED << fsCalls, disk, clock, filesPathList, statCache, zipCall, temp, tempDirs,
                    staged, bestzipCalls, archives >>

\* zipArchive emits 'error': its listener rejects
zipArchiveErrors ==
    /\ zipPc = "archiving"
    /\ zipError' = "archiver"
    /\ zipPc' = "rejected"
    /\ UNCHANGED << fsCalls, disk, clock, filesPathList, statCache, zipCall, temp, tempDirs,
                    staged, bestzipCalls, queued, archives >>

\* output emits 'close' after the archive is written: the listener resolves
outputCloses ==
    /\ zipPc = "archiving"
    /\ archives' = [archives EXCEPT ![zipCall.zipPath] =
                      [by |-> "archiver",
                       entries |-> [i \in 1..Len(queued) |-> stored(disk, queued[i])],
                       inputs |-> [i \in 1..Len(filesPathList) |->
                                      inputOf(disk, filesPathList[i])],
                       at |-> clock]]
    /\ zipPc' = "resolved"
    /\ UNCHANGED << fsCalls, disk, clock, filesPathList, statCache, zipCall, temp, tempDirs,
                    staged, bestzipCalls, queued, zipError >>

\* output emits 'error', the target cannot be opened or written: output has
\* no 'error' listener, the event is thrown as an uncaught exception and the
\* promise is neither resolved nor rejected
outputErrors ==
    /\ zipPc \in { "opening", "archiving" }
    /\ zipError' = "output"
    /\ zipPc' = "uncaught"
    /\ UNCHANGED << fsCalls, disk, clock, filesPathList, statCache, zipCall, temp, tempDirs,
                    staged, bestzipCalls, queued, archives >>

-----------------------------------------------------------------------------
(* The specifications: one per component, the others standing idle *)

bundleIdle ==
    /\ functionEntries = << >>
    /\ buildOptions = With(BaseOptions(1, DotJs, "node"), "format", Undefined)
    /\ buildDirPath = "/workdir/.esbuild"
    /\ plugins = << >>
    /\ buildResults = NoResults
    /\ pc = "idle"
    /\ config = << >>
    /\ uniqueFiles = << >>
    /\ thrown = NoError
    /\ buildCalls = << >>
    /\ buildPromise = NoPromise
    /\ inFlight = 0
    /\ prepareCalls = 0
    /\ callLog = << >>
    /\ written = << >>
    /\ realResults = NoResults
    /\ skipResults = NoResults
    /\ previousResults = NoResults

Init == bundleInit /\ bunIdle /\ zipIdle

Next ==
    \/ configure /\ UNCHANGED << bunVars, zipVars >>
    \/ bundle /\ UNCHANGED << bunVars, zipVars >>
    \/ esbuildResolves /\ UNCHANGED << bunVars, zipVars >>
    \/ esbuildRejects /\ UNCHANGED << bunVars, zipVars >>
    \/ bundleResumes /\ UNCHANGED << bunVars, zipVars >>
    \/ bundleRejects /\ UNCHANGED << bunVars, zipVars >>

Spec == Init /\ [][Next]_vars

\* one plugin invoked again and again with changing function entries and
\* output extensions
InitRebuild == bundleIdle /\ bunIdle /\ zipIdle

NextRebuild ==
    \/ reconfigure /\ UNCHANGED << bunVars, zipVars >>
    \/ bundle /\ UNCHANGED << bunVars, zipVars >>
    \/ esbuildResolves /\ UNCHANGED << bunVars, zipVars >>
    \/ esbuildRejects /\ UNCHANGED << bunVars, zipVars >>
    \/ bundleResumes /\ UNCHANGED << bunVars, zipVars >>
    \/ bundleRejects /\ UNCHANGED << bunVars, zipVars >>

SpecRebuild == InitRebuild /\ [][NextRebuild]_vars

InitBun == bundleIdle /\ bunInit /\ zipIdle

NextBun ==
    \/ getProdDependencies /\ UNCHANGED << bundleVars, zipVars >>
    \/ install /\ UNCHANGED << bundleVars, zipVars >>
    \/ processExits /\ UNCHANGED << bundleVars, zipVars >>
    \/ processFails /\ UNCHANGED << bundleVars, zipVars >>
    \/ installResolves /\ UNCHANGED << bundleVars, zipVars >>
    \/ installFallback /\ UNCHANGED << bundleVars, zipVars >>
    \/ installFallbackResolves /\ UNCHANGED << bundleVars, zipVars >>
    \/ installRejects /\ UNCHANGED << bundleVars, zipVars >>
    \/ runScripts /\ UNCHANGED << bundleVars, zipVars >>
    \/ runScriptsResolves /\ UNCHANGED << bundleVars, zipVars >>
    \/ runScriptsRejects /\ UNCHANGED << bundleVars, zipVars >>

SpecBun == InitBun /\ [][NextBun]_vars

\* getProdDependencies called again and again while the manifests change
NextBunManifests ==
    \/ getProdDependencies /\ UNCHANGED << bundleVars, zipVars >>
    \/ writeManifest /\ UNCHANGED << bundleVars, zipVars >>

SpecBunManifests == InitBun /\ [][NextBunManifests]_vars

InitZip == bundleIdle /\ bunIdle /\ zipInit

\* one file system, any number of calls in either mode
NextZip ==
    \/ zip /\ UNCHANGED << bundleVars, bunVars >>
    \/ makeTempPathScoped /\ UNCHANGED << bundleVars, bunVars >>
    \/ makeTempPathFails /\ UNCHANGED << bundleVars, bunVars >>
    \/ linkFile /\ UNCHANGED << bundleVars, bunVars >>
    \/ copyFile /\ UNCHANGED << bundleVars, bunVars >>
    \/ makeDestPathFails /\ UNCHANGED << bundleVars, bunVars >>
    \/ linkOrCopyFails /\ UNCHANGED << bundleVars, bunVars >>
    \/ makePath /\ UNCHANGED << bundleVars, bunVars >>
    \/ makePathFails /\ UNCHANGED << bundleVars, bunVars >>
    \/ bestzipEnds /\ UNCHANGED << bundleVars, bunVars >>
    \/ bestzipFails /\ UNCHANGED << bundleVars, bunVars >>
    \/ scoped /\ UNCHANGED << bundleVars, bunVars >>
    \/ outputOpens /\ UNCHANGED << bundleVars, bunVars >>
    \/ zipArchiveErrors /\ UNCHANGED << bundleVars, bunVars >>
    \/ outputCloses /\ UNCHANGED << bundleVars, bunVars >>
    \/ outputErrors /\ UNCHANGED << bundleVars, bunVars >>

SpecZip == InitZip /\ [][NextZip]_vars

\* calls of the streaming mode, with time passing and the handler rewritten
\* between them
NextZipTwice ==
    \/ tick /\ UNCHANGED << bundleVars, bunVars >>
    \/ touch /\ UNCHANGED << bundleVars, bunVars >>
    \/ edit /\ UNCHANGED << bundleVars, bunVars >>
    \/ zipDirect /\ UNCHANGED << bundleVars, bunVars >>
    \/ makePath /\ UNCHANGED << bundleVars, bunVars >>
    \/ makePathFails /\ UNCHANGED << bundleVars, bunVars >>
    \/ outputOpens /\ UNCHANGED << bundleVars, bunVars >>
    \/ zipArchiveErrors /\ UNCHANGED << bundleVars, bunVars >>
    \/ outputCloses /\ UNCHANGED << bundleVars, bunVars >>
    \/ outputErrors /\ UNCHANGED << bundleVars, bunVars >>

SpecZipTwice == InitZip /\ [][NextZipTwice]_vars

----------------------------------------------------------------------------
(* What the claims speak of *)

\* the current bundle() call passed the extension check and called the compiler
Invoked == pc \in {"build", "done"} \/ (pc = "failed" /\ thrown \in BuildFailures)

\* the entry paths of a list of function entries, each at its first occurrence
FirstSeenPaths(fes) ==
    LET firsts == {i \in 1..Len(fes) : \A j \in 1..(i - 1) : fes[j].entry # fes[i].entry}
        nth[k \in 1..Cardinality(firsts)] ==
            CHOOSE i \in firsts : Cardinality({j \in firsts : j < i}) = k - 1
    IN  [k \in 1..Cardinality(firsts) |-> fes[nth[k]].entry]

\* ceil(u / c)
Ceil(u, c) == (u + c - 1) \div c

Min(a, b) == IF a < b THEN a ELSE b

\* path.extname: from the last '.' of the file name, empty when the file name
\* has none or only starts with one
ExtName(p) ==
    LET slash == LastIndexOf(p, "/")
        base == SubSeq(p, slash + 2, Len(p))
        dot == LastIndexOf(base, ".")
    IN  IF dot <= 0 THEN << >> ELSE SubSeq(base, dot + 1, Len(base))

\* the path with its extension replaced
ReplaceExtension(p, ext) == SubSeq(p, 1, Len(p) - Len(ExtName(p))) \o ext

\* all positions <<i, j>> at which a compiler invocation received the path
Occurrences(path) ==
    {ij \in (1..Len(buildCalls)) \X (1..MaxEntries + 1) :
        /\ ij[2] <= Len(buildCalls[ij[1]].entryPoints)
        /\ buildCalls[ij[1]].entryPoints[ij[2]] = path}

----------------------------------------------------------------------------
(* C1: for U unique entry paths and a concurrency limit C, a bundle call
   makes ceil(U / C) compiler invocations, the i-th of them with the unique
   entry paths at positions [(i-1)*C, i*C) in first-seen order.  Stated for
   the lists with at least one entry.  The code makes one invocation with
   all unique paths whatever the limit is. *)
C1_BatchesOfConcurrency ==
    (pc = "done" /\ functionEntries # << >>) =>
        LET unique == FirstSeenPaths(functionEntries)
            U == Len(unique)
            C == buildOptions.concurrency
        IN  /\ Len(buildCalls) = Ceil(U, C)
            /\ \A i \in 1..Len(buildCalls) :
                  buildCalls[i].entryPoints = SubSeq(unique, (i - 1) * C + 1, Min(i * C, U))

(* C2: deduplication: in a bundle call that reaches the compiler every
   distinct entry path occurs exactly once across the entryPoints of all
   invocations, and when all function entries share one path the compiler is
   invoked exactly once. *)
C2_Deduplication ==
    Invoked =>
        /\ \A fe \in Range(functionEntries) : Cardinality(Occurrences(fe.entry)) = 1
        /\ (Cardinality({fe.entry : fe \in Range(functionEntries)}) = 1
                => Len(buildCalls) = 1)

\* two functions sharing one file were built with one invocation
C2_Witness ==
    /\ pc = "done"
    /\ Len(functionEntries) = 2
    /\ functionEntries[1].entry = functionEntries[2].entry
    /\ Len(buildCalls) = 1
    /\ buildCalls[1].entryPoints = << FileA >>

(* C3: after a successful bundle call the build result of every function
   entry whose file name has an extension has as bundlePath the entry path
   with that extension replaced by outputFileExtension. *)
C3_BundlePathReplacesExtension ==
    pc = "done" =>
        \A fe \in Range(functionEntries) : \A r \in Range(buildResults.value) :
            (r.functionAlias = fe.functionAlias /\ ExtName(fe.entry) # << >>)
                => r.bundlePath = ReplaceExtension(fe.entry, buildOptions.outputFileExtension)

\* file a.ts built with '.cjs' gave a.cjs
C3_Witness ==
    /\ pc = "done"
    /\ buildOptions.outputFileExtension = DotCjs
    /\ \E r \in Range(buildResults.value) :
          r.functionAlias = "func1" /\ r.bundlePath = << "a", ".", "c", "j", "s" >>

\* the build is an ES module build and the extension does not fit it, or the
\* other way round
ExtensionMismatch ==
    LET esm == Get(buildOptions, "format") = "esm" \/ Get(buildOptions, "platform") = "neutral"
        ext == buildOptions.outputFileExtension
    IN  (esm /\ ext = DotCjs) \/ (~esm /\ ext = DotMjs)

(* C4: bundle fails with a configuration error and without any compiler
   invocation if and only if the build is ESM and the extension '.cjs', or the
   build is not ESM and the extension '.mjs'; in every other case the compiler
   is invoked. *)
C4_ExtensionCheck ==
    pc # "idle" =>
        /\ ExtensionMismatch <=>
              (pc = "failed" /\ thrown \in {ErrCjs, ErrMjs} /\ buildCalls = << >>)
        /\ ExtensionMismatch =>
              thrown = (IF buildOptions.outputFileExtension = DotCjs THEN ErrCjs ELSE ErrMjs)
        /\ ~ExtensionMismatch => Len(buildCalls) >= 1

\* a non-ESM build with '.mjs' was refused before any compiler invocation
C4_Witness ==
    /\ pc = "failed"
    /\ thrown = ErrMjs
    /\ Get(buildOptions, "platform") = "node"
    /\ "format" \notin DOMAIN buildOptions
    /\ buildCalls = << >>
    /\ functionEntries # << >>

(* C5: with skipBundle true a bundle call never invokes the compiler.  The
   code never reads skipBundle and builds as usual. *)
C5_SkipBundleNeverBuilds ==
    (pc # "idle" /\ Truthy(buildOptions, "skipBundle")) => buildCalls = << >>

(* C6: the buildResults a bundle call with skipBundle sets are those a
   successful call without skipBundle sets for the same function entries and
   the same outputFileExtension. *)
C6_SkipResultsAreRealResults ==
    (skipResults.defined /\ realResults.defined) => skipResults.value = realResults.value

\* both kinds of call succeeded on a project with several functions, and the
\* last one was a skipBundle call
C6_Witness ==
    /\ pc = "done"
    /\ Truthy(buildOptions, "skipBundle")
    /\ realResults.defined
    /\ skipResults.defined
    /\ buildResults = skipResults
    /\ Len(skipResults.value) >= 2
    /\ buildOptions.outputFileExtension = DotMjs

(* C7: when concurrency is Infinity or at least the number of unique entry
   paths, a bundle call that reaches the compiler makes exactly one
   invocation, with entryPoints the unique entry paths in first-seen order,
   outdir the build directory and outbase '.'. *)
C7_SingleInvocation ==
    (Invoked /\ buildOptions.concurrency >= Len(FirstSeenPaths(functionEntries))) =>
        /\ Len(buildCalls) = 1
        /\ buildCalls[1].entryPoints = FirstSeenPaths(functionEntries)
        /\ buildCalls[1].outdir = buildDirPath
        /\ buildCalls[1].outbase = << "." >>

\* three functions on two files, concurrency 2: one invocation with both files
C7_Witness ==
    /\ pc = "done"
    /\ buildOptions.concurrency = 2
    /\ Len(functionEntries) = 3
    /\ functionEntries[1].entry = functionEntries[3].entry
    /\ Len(buildCalls) = 1
    /\ Len(buildCalls[1].entryPoints) = 2

\* the options the claim lists as orchestrator-only
OrchestratorOnlyKeys ==
    { "concurrency", "zipConcurrency", "exclude", "nativeZip", "packager",
      "packagePath", "watch", "keepOutputDirectory", "packagerOptions",
      "installExtraArgs", "installDeps", "outputFileExtension",
      "outputBuildFolder", "outputWorkFolder", "nodeExternals", "skipBuild",
      "skipRebuild", "skipBuildExcludeFns", "stripEntryResolveExtensions",
      "disposeContext" }

\* the options bundle() sets itself in what it hands to the compiler
SetByBundle == { "external", "plugins", "outExtension", "entryPoints", "outdir", "outbase" }

(* C8 as claimed: no compiler invocation carries an orchestrator-only option
   and every other build option is forwarded unchanged. *)
C8_AllOthersForwarded ==
    \A i \in 1..Len(buildCalls) :
        /\ DOMAIN buildCalls[i] \cap OrchestratorOnlyKeys = {}
        /\ \A k \in DOMAIN buildOptions \ OrchestratorOnlyKeys :
              k \in DOMAIN buildCalls[i] /\ buildCalls[i][k] = buildOptions[k]

(* C8, amended: no compiler invocation of the current call carries an
   orchestrator-only option, and every other build option is forwarded
   unchanged except those bundle sets itself: external, plugins,
   outExtension, entryPoints, outdir and outbase. *)
C8_OthersForwardedExceptOwn ==
    pc # "idle" =>
        \A i \in 1..Len(buildCalls) :
            /\ DOMAIN buildCalls[i] \cap OrchestratorOnlyKeys = {}
            /\ \A k \in DOMAIN buildOptions \ (OrchestratorOnlyKeys \cup SetByBundle) :
                  k \in DOMAIN buildCalls[i] /\ buildCalls[i][k] = buildOptions[k]

\* options holding all twenty orchestrator-only keys went through a build,
\* and the metafile option reached the compiler
C8_Witness ==
    /\ pc = "done"
    /\ OrchestratorOnlyKeys \subseteq DOMAIN buildOptions
    /\ Len(buildCalls) = 1
    /\ "metafile" \in DOMAIN buildCalls[1]
    /\ "skipBundle" \in DOMAIN buildCalls[1]

(* C9: after a successful bundle call buildResults holds exactly one result
   for each function entry that has a function handle, in the order of
   functionEntries, with that entry's handle and alias; the other entries are
   dropped without an error. *)
C9_OneResultPerEntry ==
    pc = "done" =>
        LET kept == SelectSeq(functionEntries, LAMBDA fe : fe.func # NULL)
        IN  /\ buildResults.defined
            /\ thrown = NoError
            /\ Len(buildResults.value) = Len(kept)
            /\ \A i \in 1..Len(kept) :
                  /\ buildResults.value[i].func = kept[i].func
                  /\ buildResults.value[i].functionAlias = kept[i].functionAlias

\* of three entries the one without handle was dropped
C9_Witness ==
    /\ pc = "done"
    /\ Len(functionEntries) = 3
    /\ functionEntries[2].func = NULL
    /\ Len(buildResults.value) = 2
    /\ buildResults.value[2].functionAlias = functionEntries[3].functionAlias

(* C10: when the compiler invocation fails, bundle fails with that failure,
   starts no further compiler invocation and publishes no build results:
   buildResults stays what it was before the call. *)
C10_CompilerFailureAborts ==
    [][(pc = "build" /\ buildPromise.state = "rejected" /\ pc' # "build") =>
          /\ pc' = "failed"
          /\ thrown' = buildPromise.value
          /\ buildCalls' = buildCalls
          /\ buildResults' = buildResults]_vars

\* a second call failed in the compiler and the results of the first call
\* are still the published ones
C10_Witness ==
    /\ pc = "failed"
    /\ buildPromise.state = "rejected"
    /\ thrown = buildPromise.value
    /\ buildResults.defined
    /\ Len(buildResults.value) >= 1

(* C11: within one bundle call at most one compiler invocation is in flight
   at any time: the invocations started and not yet settled are never more
   than one, and one is pending exactly while its promise is. *)
C11_OneInvocationInFlight ==
    /\ inFlight \in {0, 1}
    /\ inFlight = 1 <=> buildPromise = Pending

\* the one invocation for three files is in flight
C11_Witness ==
    /\ pc = "build"
    /\ inFlight = 1
    /\ Len(buildCalls) = 1
    /\ Len(buildCalls[1].entryPoints) = 3

\* the current call of a packager method has returned or thrown
bunSettled == bunPc \in { "resolved", "rejected" }

(* C12: install first spawns "bun install --production <extraArgs>" in the
   working directory; a second process, "bun install <extraArgs>" in the same
   directory, is spawned if and only if the first failed, and never a third:
   a finished install has spawned two processes when the production attempt
   failed and one when it succeeded. *)
C12_ProductionThenFallback ==
    bunCall.op = "install" =>
       /\ Len(spawned) \in {1, 2}
       /\ spawned[1].command = "bun"
       /\ spawned[1].args = << "install", "--production" >> \o bunCall.args
       /\ spawned[1].cwd = bunCall.cwd
       /\ Len(spawned) = 2 =>
             /\ spawned[1].state = "failed"
             /\ spawned[2].command = "bun"
             /\ spawned[2].args = << "install" >> \o bunCall.args
             /\ spawned[2].cwd = bunCall.cwd
       /\ bunSettled => (Len(spawned) = 2 <=> spawned[1].state = "failed")
       /\ bunSettled /\ spawned[1].state = "exited" => Len(spawned) = 1

\* the production attempt with extra arguments failed and the plain install
\* was spawned and succeeded
C12_Witness ==
    /\ bunCall.op = "install"
    /\ bunCall.args # << >>
    /\ bunPc = "resolved"
    /\ Len(spawned) = 2
    /\ spawned[1].state = "failed"
    /\ spawned[2].state = "exited"

(* C13: a finished install has succeeded exactly if one of its attempts
   succeeded; it fails only when both attempts failed, and the error it
   throws is the second attempt's, never the first's. *)
C13_FallbackErrorReported ==
    bunCall.op = "install" /\ bunSettled =>
       /\ bunPc = "resolved" <=>
             \E i \in 1..Len(spawned) : spawned[i].state = "exited"
       /\ bunPc = "rejected" =>
             /\ Len(spawned) = 2
             /\ spawned[1].state = "failed"
             /\ spawned[2].state = "failed"
             /\ bunError = spawned[2].error
             /\ bunError # spawned[1].error

\* both attempts failed, each in its own way, and install threw the second
\* error
C13_Witness ==
    /\ bunCall.op = "install"
    /\ bunPc = "rejected"
    /\ Len(spawned) = 2
    /\ spawned[1].error.kind = "exit 1"
    /\ spawned[2].error.kind = "ENOENT"
    /\ bunError = spawned[2].error

(* C14: runScripts spawns exactly one "bun run <scriptName>" per given name,
   in the working directory, and all of them are there from the moment the
   call was made; the call has succeeded only when every script has ended
   successfully, and it never succeeds, and fails only, when a script
   failed. *)
C14_AllScriptsSpawnedAtOnce ==
    bunCall.op = "runScripts" =>
       /\ Len(spawned) = Len(bunCall.args)
       /\ \A i \in 1..Len(spawned) :
             /\ spawned[i].command = "bun"
             /\ spawned[i].args = << "run", bunCall.args[i] >>
             /\ spawned[i].cwd = bunCall.cwd
       /\ bunPc = "resolved" =>
             \A i \in 1..Len(spawned) : spawned[i].state = "exited"
       /\ (\E i \in 1..Len(spawned) : spawned[i].state = "failed") =>
             bunPc # "resolved"
       /\ bunPc = "rejected" =>
             \E i \in 1..Len(spawned) :
                /\ spawned[i].state = "failed"
                /\ bunError = spawned[i].error

\* two scripts were started together and both ended before the call returned
C14_Witness ==
    /\ bunCall.op = "runScripts"
    /\ Len(bunCall.args) = 2
    /\ bunCall.args[1] # bunCall.args[2]
    /\ bunPc = "resolved"
    /\ \A i \in 1..2 : spawned[i].state = "exited"

\* the manifest holds a JSON object with a dependencies section
HasDependencies(file) ==
    /\ file.kind = "text"
    /\ file.json.t = "object"
    /\ "dependencies" \in DOMAIN file.json.sections

(* C15: getProdDependencies never fails; for a manifest that is missing,
   unreadable, not JSON or without a dependencies section it returns the
   empty dependency set, and otherwise exactly one entry per name of the
   dependencies section, holding that name's version, and nothing from the
   other sections. *)
C15_ProdDependenciesNeverFail ==
    bunCall.op = "getProdDependencies" =>
       LET file == manifests[bunCall.cwd]
       IN  /\ bunPc = "resolved"
           /\ DOMAIN depResult = { "dependencies" }
           /\ IF HasDependencies(file)
              THEN /\ DOMAIN depResult.dependencies =
                         DOMAIN file.json.sections.dependencies
                   /\ \A name \in DOMAIN depResult.dependencies :
                         depResult.dependencies[name] =
                            [version |-> file.json.sections.dependencies[name]]
              ELSE depResult.dependencies = << >>

\* a manifest with production, development and peer dependencies was read
C15_Witness ==
    /\ bunCall.op = "getProdDependencies"
    /\ bunPc = "resolved"
    /\ HasDependencies(manifests[bunCall.cwd])
    /\ "devDependencies" \in DOMAIN manifests[bunCall.cwd].json.sections
    /\ "peerDependencies" \in DOMAIN manifests[bunCall.cwd].json.sections
    /\ DOMAIN depResult.dependencies = { "lodash", "pg" }
    /\ depResult.dependencies["pg"] = [version |-> "8.11.0"]

\* the current zip call has returned or thrown
zipSettled == zipPc \in { "resolved", "rejected" }

(* C16: in native zip mode, whenever zip has returned, with success or with
   a failure in staging, in making the target directory or in the native zip
   tool, the staging directory of that call no longer exists. *)
C16_StagingDirRemoved ==
    zipCall.useNativeZip /\ zipSettled =>
       /\ temp \notin tempDirs
       /\ tempDirs = { }

\* the second file could not be staged: zip threw and the directory, which
\* held the first file, is gone
C16_Witness ==
    /\ zipCall.useNativeZip
    /\ zipPc = "rejected"
    /\ zipError = "linkOrCopyFile"
    /\ Len(staged) = 1
    /\ temp \notin tempDirs

(* C17: two runs of the streaming mode that were given the same names,
   permissions and contents write the same archive, whatever the target
   path, the time of the run and the modification times of the sources; no
   entry carries another time than the epoch start. *)
C17_SameInputsSameArchive ==
    /\ \A p, q \in ZipPaths :
          ( /\ archives[p].by = "archiver"
            /\ archives[q].by = "archiver"
            /\ archives[p].inputs = archives[q].inputs )
          => archives[p].entries = archives[q].entries
    /\ \A p \in ZipPaths :
          archives[p].by = "archiver" =>
             \A i \in 1..Len(archives[p].entries) : archives[p].entries[i].date = 0

\* the handler was archived at time 1, rewritten with the same content at
\* time 2 and archived again, its stat read from disk: the archives are equal
C17_Witness ==
    /\ archives["/out/a.zip"].by = "archiver"
    /\ archives["/out/b.zip"].by = "archiver"
    /\ archives["/out/a.zip"].at = 1
    /\ archives["/out/b.zip"].at = 2
    /\ disk[HandlerJs].mtime = 2
    /\ ~statCache.given
    /\ archives["/out/a.zip"].inputs = archives["/out/b.zip"].inputs
    /\ \E i \in 1..Len(archives["/out/b.zip"].entries) :
          archives["/out/b.zip"].entries[i].name = "handler.js"
    /\ archives["/out/a.zip"].entries = archives["/out/b.zip"].entries

\* the inputs that are no directory, in input order
nonDirectories == SelectSeq(filesPathList, LAMBDA f : disk[f.rootPath].kind # "dir")

(* C18: a successful run of the streaming mode leaves an archive with
   exactly one entry per input that is no directory, in input order, named
   by the input's localPath, with the permission bits of the source and the
   epoch start as modification time; a directory has no entry. *)
C18_OneEntryPerFile ==
    ~zipCall.useNativeZip /\ zipPc = "resolved" =>
       LET entries == archives[zipCall.zipPath].entries
       IN  /\ Len(entries) = Len(nonDirectories)
           /\ \A i \in 1..Len(entries) :
                 /\ entries[i].name = nonDirectories[i].localPath
                 /\ entries[i].mode = disk[nonDirectories[i].rootPath].mode
                 /\ entries[i].date = 0
                 /\ entries[i].data = disk[nonDirectories[i].rootPath].data

\* the script, its directory and the handler were given: the archive holds
\* the script and the handler, each with its permissions
C18_Witness ==
    /\ ~zipCall.useNativeZip
    /\ zipPc = "resolved"
    /\ filesPathList = << IFile(RunSh, "bin/run.sh"), IFile(BinDir, "bin"),
                          IFile(HandlerJs, "handler.js") >>
    /\ Len(archives[zipCall.zipPath].entries) = 2
    /\ archives[zipCall.zipPath].entries[1].name = "bin/run.sh"
    /\ archives[zipCall.zipPath].entries[1].mode = 33261
    /\ archives[zipCall.zipPath].entries[2].name = "handler.js"
    /\ archives[zipCall.zipPath].entries[2].mode = 33188

(* C19: in native zip mode the native zip tool is invoked, once, only after
   every file of the list has been staged; after a staging failure it is not
   invoked. *)
C19_ZipToolAfterStaging ==
    zipCall.useNativeZip =>
       /\ Len(bestzipCalls) <= 1
       /\ bestzipCalls # << >> =>
             /\ Len(staged) = Len(filesPathList)
             /\ \A i \in 1..Len(staged) :
                   /\ staged[i].from = filesPathList[i].rootPath
                   /\ staged[i].dest = << temp, filesPathList[i].localPath >>
             /\ bestzipCalls[1] =
                   [source |-> "*", destination |-> zipCall.zipPath, cwd |-> temp]
       /\ zipError = "linkOrCopyFile" => bestzipCalls = << >>

\* three files were staged, by link and by copy, and the tool is running
C19_Witness ==
    /\ zipCall.useNativeZip
    /\ zipPc = "bestzip"
    /\ Len(bestzipCalls) = 1
    /\ Len(staged) = 3
    /\ \E i, j \in 1..3 : staged[i].how = "link" /\ staged[j].how = "copy"

(* C20: in the streaming mode every error met while the archive is made,
   the target not opened or not written, a source not stat-ed, an error of
   the archiver, makes zip fail: once an error has occurred the call is
   rejected, it has not succeeded and it is not left pending. *)
C20_ErrorsRejectZip ==
    ~zipCall.useNativeZip /\ zipError # "none" => zipPc = "rejected"

\* the package names an item of the external option stands for
NamesOfItem(item) ==
    IF item.t = "string" THEN << item.v >>
    ELSE IF item.t = "object" THEN item.keys
    ELSE << >>

\* the package names of a list of items, in order
RECURSIVE NamesOfItems(_)
NamesOfItems(items) ==
    IF items = << >> THEN << >>
    ELSE NamesOfItems(SubSeq(items, 1, Len(items) - 1)) \o NamesOfItem(items[Len(items)])

\* the strings of a list of items, in order
StringsOf(items) ==
    LET strings == SelectSeq(items, LAMBDA item : item.t = "string")
    IN  [i \in 1..Len(strings) |-> strings[i].v]

(* C21: the external list of every compiler invocation is the package names
   of the external option, a string giving itself and an object its keys in
   order, followed by the strings of the exclude list; when the exclude
   list holds '*' it is the external names alone. *)
C21_ExternalList ==
    pc # "idle" =>
       \A c \in 1..Len(buildCalls) :
          LET external == buildCalls[c].external
              excluded == StringsOf(buildOptions.exclude)
          IN  [i \in 1..Len(external) |-> external[i].v] =
                 NamesOfItems(buildOptions.external)
                    \o (IF \E i \in 1..Len(excluded) : excluded[i] = "*"
                        THEN << >> ELSE excluded)

\* a string and an object with two keys were external and the exclude list
\* held '*': the compiler got the three names alone
C21_Witness ==
    /\ pc = "done"
    /\ buildOptions.external = << Str("pg"), Obj(<< "sharp", "knex" >>), Other(NULL) >>
    /\ buildOptions.exclude = << Str("aws-sdk"), Str("*") >>
    /\ Len(buildCalls) = 1
    /\ buildCalls[1].external = << Str("pg"), Str("sharp"), Str("knex") >>

\* what a manifest holds in its dependencies section, as a dependency set
FreshDependencies(file) ==
    IF HasDependencies(file)
    THEN [dependencies |->
            [name \in DOMAIN file.json.sections.dependencies |->
                [version |-> file.json.sections.dependencies[name]]]]
    ELSE [dependencies |-> << >>]

(* C22: whatever calls and manifest changes came before, a call of
   getProdDependencies returns what the manifest of its working directory
   holds at the time of the call, and nothing of an earlier result. *)
C22_NoCarryOver ==
    [][manifests' = manifests =>
          /\ bunCall'.op = "getProdDependencies"
          /\ depResult' = FreshDependencies(manifests[bunCall'.cwd])]_vars

\* a call returned lodash and pg, and the next call, on a manifest without
\* production dependencies, returned the empty set
C22_Witness ==
    /\ bunCall.op = "getProdDependencies"
    /\ DOMAIN previousDeps.dependencies = { "lodash", "pg" }
    /\ manifests[bunCall.cwd].kind = "text"
    /\ manifests[bunCall.cwd].json.t = "object"
    /\ DOMAIN manifests[bunCall.cwd].json.sections = { "devDependencies" }
    /\ depResult.dependencies = << >>

(* C23: no step of a bundle call changes the plugin's buildOptions or
   functionEntries: only the configuration layer, between calls, sets them. *)
C23_OptionsReadOnly ==
    [][pc' # "idle" =>
          /\ buildOptions' = buildOptions
          /\ functionEntries' = functionEntries]_vars

\* after a call the options still hold the plugin's own keys, which the
\* configuration handed to the compiler does not, and their own lists
C23_Witness ==
    /\ pc = "done"
    /\ OrchestratorOnlyKeys \subseteq DOMAIN buildOptions
    /\ DOMAIN config \cap OrchestratorOnlyKeys = { }
    /\ buildOptions.external = << Str("pg") >>
    /\ config.external = << Str("pg"), Str("aws-sdk") >>
    /\ Len(functionEntries) = 2

(* C24: every bundle call calls prepare() exactly once and before the
   compiler, whether skipBundle is set or not. *)
C24_PrepareOnceFirst ==
    pc \in { "build", "done", "failed" } =>
       /\ prepareCalls = 1
       /\ Cardinality({ i \in 1..Len(callLog) : callLog[i] = "prepare" }) = 1
       /\ callLog[1] = "prepare"
       /\ buildCalls # << >> => Len(callLog) = 2 /\ callLog[2] = "pkg.build"

\* a call with skipBundle set prepared and then called the compiler
C24_Witness ==
    /\ pc = "done"
    /\ Truthy(buildOptions, "skipBundle")
    /\ callLog = << "prepare", "pkg.build" >>
    /\ prepareCalls = 1

\* the fs.link calls of the current zip call, in order
linkCalls == SelectSeq(fsCalls, LAMBDA c : c.op = "link")

\* staging stopped at a file of the list
StagingFailed ==
    /\ zipCall.useNativeZip
    /\ zipError \in { "makePath", "linkOrCopyFile" }
    /\ Len(staged) < Len(filesPathList)

\* the file at which staging stopped was linked and copied in vain
CopyFailedToo ==
    /\ Len(linkCalls) = Len(staged) + 1
    /\ fsCalls[Len(fsCalls)].op = "copy"
    /\ fsCalls[Len(fsCalls)].threw # "none"
    /\ fsCalls[Len(fsCalls)].from = filesPathList[Len(staged) + 1].rootPath

\* each file is linked first, from its rootPath to <staging dir>/<localPath>,
\* and copied exactly when the link threw
LinkThenCopy ==
    /\ \A i \in 1..Len(linkCalls) :
          /\ linkCalls[i].from = filesPathList[i].rootPath
          /\ linkCalls[i].dest = << temp, filesPathList[i].localPath >>
    /\ Len(linkCalls) >= Len(staged)
    /\ \A i \in 1..Len(staged) :
          staged[i].how = (IF linkCalls[i].threw = "none" THEN "link" ELSE "copy")
    /\ \A k \in 1..Len(fsCalls) :
          /\ fsCalls[k].op = "copy" =>
                /\ k > 1
                /\ fsCalls[k - 1].op = "link"
                /\ fsCalls[k - 1].threw # "none"
                /\ fsCalls[k - 1].from = fsCalls[k].from
                /\ fsCalls[k - 1].dest = fsCalls[k].dest
          /\ (fsCalls[k].op = "link" /\ fsCalls[k].threw # "none") =>
                /\ k < Len(fsCalls)
                /\ fsCalls[k + 1].op = "copy"

(* C25 as claimed: in native staging each file is linked first and copied
   only, and always, when the link failed, and the staging of a file fails
   only if its copy failed too. *)
C25_FailsOnlyIfCopyFails ==
    zipCall.useNativeZip =>
       /\ LinkThenCopy
       /\ StagingFailed => CopyFailedToo

(* C25, amended: in native staging the parent directory of the destination
   is made first; then the file is linked, and copied only, and always,
   when the link failed; the staging of a file fails only if that directory
   cannot be made, before any link, or if the copy failed too. *)
C25_LinkThenCopyAfterMakePath ==
    zipCall.useNativeZip =>
       /\ LinkThenCopy
       /\ StagingFailed =>
             \/ zipError = "makePath" /\ Len(linkCalls) = Len(staged)
             \/ zipError = "linkOrCopyFile" /\ CopyFailedToo

\* a regular file on the same device could not be linked and was copied,
\* and a file after it was linked
C25_Witness ==
    /\ zipCall.useNativeZip
    /\ Len(staged) = 2
    /\ staged[1].how = "copy"
    /\ staged[2].how = "link"
    /\ fsCalls = << [op |-> "link", from |-> HandlerJs, dest |-> << temp, "handler.js" >>,
                     threw |-> "EPERM"],
                    [op |-> "copy", from |-> HandlerJs, dest |-> << temp, "handler.js" >>,
                     threw |-> "none"],
                    [op |-> "link", from |-> RunSh, dest |-> << temp, "bin/run.sh" >>,
                     threw |-> "none"] >>

\* the function entries that have a function handle, in order
LiveEntries == SelectSeq(functionEntries, LAMBDA fe : fe.func # NULL)

\* the build results the current function entries and output extension give
ResultsOfCurrentCall ==
    [i \in 1..Len(LiveEntries) |->
        [bundlePath |-> bundlePathOf(LiveEntries[i].entry,
                                     buildOptions.outputFileExtension),
         func |-> LiveEntries[i].func,
         functionAlias |-> LiveEntries[i].functionAlias]]

(* C26: after any sequence of successful bundle calls, buildResults depends
   only on the function entries and the output extension of the most recent
   call: each call replaces the results, never appends to or merges with the
   earlier ones. *)
C26_ResultsOfLastCallOnly ==
    pc = "done" => buildResults = Results(ResultsOfCurrentCall)

\* a successful call replaced the non-empty results of an earlier call by
\* different, non-empty ones
C26_Witness ==
    /\ pc = "done"
    /\ previousResults.defined
    /\ previousResults.value # << >>
    /\ buildResults.value # << >>
    /\ buildResults # previousResults

(* C28: a bundle call that fails, by the extension check or by the compiler,
   leaves buildResults exactly as it was before the call: no step of a call
   that is still building or has failed changes it. *)
C28_FailedCallKeepsResults ==
    [][pc' \in {"build", "failed"} => buildResults' = buildResults]_vars

\* a call failed in the extension check while the results of an earlier
\* successful call are published
C28_Witness ==
    /\ pc = "failed"
    /\ thrown \in {ErrCjs, ErrMjs}
    /\ buildResults.defined
    /\ buildResults.value # << >>

(* C27: when the metafile option is enabled, a successful compiler invocation
   is followed by writing the returned metadata, as JSON, to meta.json inside
   the build directory, and nothing else; when it is not enabled, and while
   the call is building or when it has failed, the call has written no file. *)
C27_MetafileWritten ==
    /\ pc = "done" =>
          written = IF Truthy(buildOptions, "metafile")
                    THEN << [path |-> << buildDirPath, "meta.json" >>,
                             content |-> JSONstringify(buildPromise.value.metafile, 2)] >>
                    ELSE << >>
    /\ pc \in {"build", "failed"} => written = << >>

\* a call of a project with the metafile option set succeeded and wrote
\* the metadata esbuild returned
C27_Witness ==
    /\ pc = "done"
    /\ "metafile" \in DOMAIN buildOptions
    /\ buildPromise.state = "fulfilled"
    /\ buildOptions.metafile
    /\ Len(written) = 1
    /\ written[1].content.json = buildPromise.value.metafile

\* the published bundle path of a function entry; the alias names the entry
BundlePathsOf(fe) ==
    { r.bundlePath : r \in { x \in Range(buildResults.value) :
                                x.functionAlias = fe.functionAlias } }

(* C29: after a successful bundle call, function entries with distinct entry
   paths have distinct bundle paths, and an entry path whose file name has no
   extension has as bundle path the whole entry path with the output
   extension appended.  The code cuts the path at the last '.' anywhere in
   it, or drops its last character when it has none. *)
C29_DistinctAndWholePaths ==
    pc = "done" =>
        /\ \A fe1, fe2 \in Range(functionEntries) :
              fe1.entry # fe2.entry => BundlePathsOf(fe1) \cap BundlePathsOf(fe2) = {}
        /\ \A fe \in Range(functionEntries) :
              ExtName(fe.entry) = << >> =>
                  BundlePathsOf(fe) \subseteq
                      { fe.entry \o buildOptions.outputFileExtension }

\* the script processes of the call still running
StillRunning == { i \in 1..Len(spawned) : spawned[i].state = "running" }

(* C30: when a script of a runScripts call has failed, the call's failure is
   due at once, whatever the other scripts do; and the step by which
   runScripts fails reports the first failure and leaves every process it
   spawned as it is: the ones still running keep running. *)
C30_FailsWithoutWaitingOrKilling ==
    [][(bunCall.op = "runScripts" /\ bunPc = "runScripts") =>
          /\ (\E i \in 1..Len(spawned) : spawned[i].state = "failed")
                 => allPromise.state = "rejected"
          /\ bunPc' = "rejected" =>
                 /\ bunError' = allPromise.error
                 /\ spawned' = spawned]_vars

\* runScripts has failed for its first script while its second script is
\* still running in the working directory
C30_Witness ==
    /\ bunCall.op = "runScripts"
    /\ bunPc = "rejected"
    /\ Len(spawned) = 2
    /\ spawned[1].state = "failed"
    /\ bunError = spawned[1].error
    /\ StillRunning = {2}
    /\ spawned[2].cwd = bunCall.cwd

====
